---------------------------- MODULE Spec2Model ----------------------------
(***************************************************************************)
(* A model of opt_einsum.contract (src/opt_einsum.py): the two path        *)
(* planners (_path_optimal, _path_opportunistic), the index algebra        *)
(* (_compute_size, _find_contraction) and the contraction loop with its    *)
(* choice of primitive (dot, reshaped matrix multiply, tensordot, einsum). *)
(*                                                                         *)
(* The source is Python 2: map() and zip() return lists.  Positions are    *)
(* 0-based as in the source; TLA+ sequences are 1-based, so position p of  *)
(* a Python list is element p + 1 of the sequence that models it.          *)
(*                                                                         *)
(* An array is a record [shape, data]: data lists the elements in C order, *)
(* which is the order numpy's reshape and ravel read them in.  An element  *)
(* is a formal polynomial in the entries of the caller's operands, kept as *)
(* a bag of monomials (a monomial is a product of operand entries).  Two   *)
(* arrays of polynomials are equal exactly when the integer arrays they    *)
(* denote are equal for every content of the operands.                     *)
(***************************************************************************)
EXTENDS Integers, Sequences, FiniteSets, TLC

\* ----------------------------------------------------------------- bounds
\* Largest number of operands of an expression.
MaxOperands == 3
\* Largest extent of a label.
MaxDim == 2
\* The threshold of line 233 (1e6 in the source), scaled to the extents above:
\* an expression whose extents multiply to less is left to einsum.
SmallLimit == 4

\* ------------------------------------------------------- generic helpers
RECURSIVE SumSet(_, _)
\* The sum of f[x] over the finite set S.
SumSet(S, f) ==
    IF S = {} THEN 0
    ELSE LET x == CHOOSE y \in S : TRUE IN f[x] + SumSet(S \ {x}, f)

\* The set of the elements of a sequence: Python's set(term).
StrSet(s) == {s[n] : n \in DOMAIN s}

\* The labels in the order Python compares one-character strings.
LabelOrder == <<"i", "j", "k", "l">>
Ord(l) == CHOOSE n \in DOMAIN LabelOrder : LabelOrder[n] = l

\* Every ordering of the finite set S as a sequence without repetition: the
\* orders in which iterating a Python set can yield its elements.
Orders(S) ==
    {s \in [1..Cardinality(S) -> S] : \A a, b \in DOMAIN s : a # b => s[a] # s[b]}

\* Product of the elements of a sequence of numbers.
ProdSeq(s) ==
    LET F[n \in 0..Len(s)] == IF n = 0 THEN 1 ELSE F[n - 1] * s[n]
    IN  F[Len(s)]

\* _compute_size(inds, ind_dict) for inds a string: one factor per character.
ComputeSizeStr(inds, ind_dict) == ProdSeq([n \in DOMAIN inds |-> ind_dict[inds[n]]])

RECURSIVE ComputeSizeSet(_, _)
\* _compute_size(inds, ind_dict) for inds a set: one factor per element.
ComputeSizeSet(inds, ind_dict) ==
    IF inds = {} THEN 1
    ELSE LET i == CHOOSE x \in inds : TRUE
         IN  ind_dict[i] * ComputeSizeSet(inds \ {i}, ind_dict)

\* ---------------------------------------------------- polynomial entries
\* A monomial is a product of entries of distinct operands of the caller.  It
\* is kept as a number in base Base whose digit p is 1 + the flat index of the
\* entry of operand p, and 0 when operand p has no entry in the product; the
\* product of two monomials over disjoint operands is then the sum of the two
\* numbers.  An entry of an array is a bag of monomials: monomial -> count.
Base == MaxDim * MaxDim * MaxDim + 2

RECURSIVE Power(_, _)
Power(b, e) == IF e = 0 THEN 1 ELSE b * Power(b, e - 1)

\* The entry f (flat index) of the caller's operand p.
Leaf(p, f) == [m \in {(f + 1) * Power(Base, p)} |-> 1]

Cnt(x, m) == IF m \in DOMAIN x THEN x[m] ELSE 0

\* Sum of two entries.
EAdd(x, y) == [m \in (DOMAIN x) \cup (DOMAIN y) |-> Cnt(x, m) + Cnt(y, m)]

\* Product of two entries.
EMul(x, y) ==
    LET D == {m1 + m2 : m1 \in DOMAIN x, m2 \in DOMAIN y}
    IN  [m \in D |->
            LET P == {m1 \in DOMAIN x : (m - m1) \in DOMAIN y}
            IN  SumSet(P, [m1 \in P |-> x[m1] * y[m - m1]])]

EZero == [m \in {} |-> 0]
EOne == [m \in {0} |-> 1]

RECURSIVE ESumSet(_, _)
\* The sum of the entries f[x] over the finite set S.
ESumSet(S, f) ==
    IF S = {} THEN EZero
    ELSE LET x == CHOOSE y \in S : TRUE IN EAdd(f[x], ESumSet(S \ {x}, f))

\* Product of a sequence of entries.
EProdSeq(s) ==
    LET F[n \in 0..Len(s)] == IF n = 0 THEN EOne ELSE EMul(F[n - 1], s[n])
    IN  F[Len(s)]

\* ----------------------------------------------------------------- arrays
Size(a) == ProdSeq(a.shape)

\* The caller's operand p for a term and a dimension table.
Operand(p, term, ind_dict) ==
    LET sh == [n \in DOMAIN term |-> ind_dict[term[n]]]
    IN  [shape |-> sh, data |-> [f \in 1..ProdSeq(sh) |-> Leaf(p, f - 1)]]

\* The C-order flat index of the element at idx (a sequence, one index per axis).
Flat(shape, idx) ==
    LET F[n \in 0..Len(shape)] == IF n = 0 THEN 0 ELSE F[n - 1] * shape[n] + idx[n]
    IN  F[Len(shape)]

\* The index along axis n of the element with C-order flat index t.
AxisIndex(shape, t, n) ==
    (t \div ProdSeq(SubSeq(shape, n + 1, Len(shape)))) % shape[n]

\* a.reshape(shape) succeeds: numpy raises ValueError when the counts differ.
ReshapeOK(a, shape) == ProdSeq(shape) = Size(a)

\* a.reshape(shape): the same elements in C order under the new shape.
Reshape(a, shape) == [shape |-> shape, data |-> a.data]

\* a.ravel(): the elements in C order as one axis.
Ravel(a) == [shape |-> <<Size(a)>>, data |-> a.data]

\* np.squeeze(a): the axes of extent 1 dropped.
Squeeze(a) == [shape |-> SelectSeq(a.shape, LAMBDA d : d # 1), data |-> a.data]

\* a.T for a matrix.
Transpose2D(a) ==
    LET r == a.shape[1]
        c == a.shape[2]
    IN  [shape |-> <<c, r>>,
         data  |-> [f \in 1..(r * c) |->
                      a.data[((f - 1) % r) * c + ((f - 1) \div r) + 1]]]

\* np.dot(a, b) is defined: a scalar with anything, two vectors of one length,
\* two matrices whose inner extents agree.
DotOK(a, b) ==
    CASE Len(a.shape) = 0 \/ Len(b.shape) = 0 -> TRUE
      [] Len(a.shape) = 1 /\ Len(b.shape) = 1 -> a.shape[1] = b.shape[1]
      [] Len(a.shape) = 2 /\ Len(b.shape) = 2 -> a.shape[2] = b.shape[1]

\* np.dot(a, b): scaling by a scalar, the inner product of two vectors, the
\* product of two matrices.
Dot(a, b) ==
    CASE Len(a.shape) = 0 ->
           [shape |-> b.shape,
            data  |-> [f \in DOMAIN b.data |-> EMul(a.data[1], b.data[f])]]
      [] Len(a.shape) # 0 /\ Len(b.shape) = 0 ->
           [shape |-> a.shape,
            data  |-> [f \in DOMAIN a.data |-> EMul(a.data[f], b.data[1])]]
      [] Len(a.shape) = 1 /\ Len(b.shape) = 1 ->
           [shape |-> <<>>,
            data  |-> <<ESumSet(DOMAIN a.data,
                                [f \in DOMAIN a.data |-> EMul(a.data[f], b.data[f])])>>]
      [] Len(a.shape) = 2 /\ Len(b.shape) = 2 ->
           LET r == a.shape[1]
               m == a.shape[2]
               c == b.shape[2]
           IN  [shape |-> <<r, c>>,
                data  |-> [f \in 1..(r * c) |->
                             LET i == (f - 1) \div c
                                 j == (f - 1) % c
                             IN  ESumSet(0..(m - 1),
                                         [k \in 0..(m - 1) |->
                                            EMul(a.data[i * m + k + 1],
                                                 b.data[k * c + j + 1])])]]

\* The extent np.einsum reads for label l: that of the first axis carrying it.
LabelDim(terms, arrs, l) ==
    LET p == CHOOSE q \in DOMAIN terms :
                 /\ l \in StrSet(terms[q])
                 /\ \A q2 \in DOMAIN terms : l \in StrSet(terms[q2]) => q <= q2
        n == CHOOSE k \in DOMAIN terms[p] :
                 /\ terms[p][k] = l
                 /\ \A k2 \in DOMAIN terms[p] : terms[p][k2] = l => k <= k2
    IN  arrs[p].shape[n]

\* np.einsum(terms -> out, arrs) is defined: one array per term, one axis per
\* label, one extent per label, and an output of distinct labels of the input.
EinsumOK(terms, out, arrs) ==
    /\ Len(terms) = Len(arrs)
    /\ \A p \in DOMAIN terms : Len(terms[p]) = Len(arrs[p].shape)
    /\ \A p \in DOMAIN terms : \A n \in DOMAIN terms[p] :
           arrs[p].shape[n] = LabelDim(terms, arrs, terms[p][n])
    /\ StrSet(out) \subseteq UNION {StrSet(terms[p]) : p \in DOMAIN terms}
    /\ \A a, b \in DOMAIN out : a # b => out[a] # out[b]

\* The entry of np.einsum's result at C-order flat index t: the sum over the
\* indices asgs of the summed labels of the product of the operands' entries.
EinsumEntry(terms, out, arrs, oshape, asgs, t) ==
    ESumSet(asgs,
      [s \in asgs |->
         EProdSeq([p \in DOMAIN terms |->
            arrs[p].data[Flat(arrs[p].shape,
                              [n \in DOMAIN terms[p] |->
                                 IF terms[p][n] \in DOMAIN s THEN s[terms[p][n]]
                                 ELSE AxisIndex(oshape, t,
                                        CHOOSE k \in DOMAIN out : out[k] = terms[p][n])])
                         + 1]])])

\* np.einsum's result of shape oshape, asgs being the indices of the summed
\* labels.
EinsumData(terms, out, arrs, oshape, asgs) ==
    [shape |-> oshape,
     data  |-> [f \in 1..ProdSeq(oshape) |->
                  EinsumEntry(terms, out, arrs, oshape, asgs, f - 1)]]

\* np.einsum's result for the extents dim, the summed labels and their largest
\* extent top.
EinsumOver(terms, out, arrs, dim, summed, top) ==
    EinsumData(terms, out, arrs, [n \in DOMAIN out |-> dim[out[n]]],
               {s \in [summed -> 0..(top - 1)] : \A l \in summed : s[l] < dim[l]})

\* The largest of the extents dim of the labels L, 1 for no label.
TopDim(dim, L) ==
    IF L = {} THEN 1
    ELSE CHOOSE d \in {dim[l] : l \in L} : \A l \in L : dim[l] <= d

\* np.einsum over the labels L of the terms, whose extents are dim.
EinsumLabels(terms, out, arrs, dim, L) ==
    EinsumOver(terms, out, arrs, dim, L \ StrSet(out), TopDim(dim, L \ StrSet(out)))

\* np.einsum(terms -> out, arrs): for every index of the output labels, the sum
\* over the indices of the other labels of the product of the operands' entries.
Einsum(terms, out, arrs) ==
    EinsumLabels(terms, out, arrs,
                 [l \in UNION {StrSet(terms[p]) : p \in DOMAIN terms} |-> LabelDim(terms, arrs, l)],
                 UNION {StrSet(terms[p]) : p \in DOMAIN terms})

\* np.tensordot(a, b, axes=(left_pos, right_pos)) as a reduction over numbered
\* axes: axis n of a is numbered n, axis n of b is numbered as the axis of a it
\* is paired with, or Len(a.shape) + n when it is not paired (0-based positions).
TensordotRight(na, nb, left_pos, right_pos) ==
    [n \in 1..nb |->
       IF \E k \in DOMAIN right_pos : right_pos[k] = n - 1
       THEN left_pos[CHOOSE k \in DOMAIN right_pos : right_pos[k] = n - 1] + 1
       ELSE na + n]

\* The axes of np.tensordot's result: a's unpaired axes, then b's.
TensordotOut(na, nb, left_pos, right_pos) ==
    SelectSeq([n \in 1..na |-> n], LAMBDA x : x \notin {left_pos[k] + 1 : k \in DOMAIN left_pos})
    \o SelectSeq(TensordotRight(na, nb, left_pos, right_pos), LAMBDA x : x > na)

\* np.tensordot accepts the axes: the paired axes have the same extent.
TensordotOK(a, b, left_pos, right_pos) ==
    \A k \in DOMAIN left_pos : a.shape[left_pos[k] + 1] = b.shape[right_pos[k] + 1]

\* ---------------------------------------------------------- index algebra
\* input_sets without the positions in `positions`, order kept.
Untouched(positions, input_sets) ==
    LET F[n \in 0..Len(input_sets)] ==
            IF n = 0 THEN <<>>
            ELSE IF (n - 1) \in positions THEN F[n - 1]
            ELSE Append(F[n - 1], input_sets[n])
    IN  F[Len(input_sets)]

\* _find_contraction(positions, input_sets, output_set); positions is the set of
\* the 0-based positions contracted.
FindContraction(positions, input_sets, output_set) ==
    LET touched        == {n \in DOMAIN input_sets : (n - 1) \in positions}
        index_contract == UNION {input_sets[n] : n \in touched}
        index_remain   == output_set \cup
                          UNION {input_sets[n] : n \in (DOMAIN input_sets) \ touched}
        new_result     == index_remain \cap index_contract
    IN  [new_result     |-> new_result,
         remaining      |-> Append(Untouched(positions, input_sets), new_result),
         index_removed  |-> index_contract \ new_result,
         index_contract |-> index_contract]

\* zip(*np.triu_indices(n, 1)): the pairs a < b of 0..n-1, row by row.
TriuIndices(n) ==
    LET S == {q \in (0..(n - 1)) \X (0..(n - 1)) : q[1] < q[2]}
    IN  [k \in 1..Cardinality(S) |->
           CHOOSE q \in S :
               Cardinality({r \in S : r[1] * n + r[2] < q[1] * n + q[2]}) = k - 1]

\* tuple(range(n)).
Range(n) == [k \in 1..n |-> k - 1]

\* Python's s < t for two tuples of integers.
TupleLess(s, t) ==
    \E n \in 1..(Len(s) + 1) :
        /\ n <= Len(t)
        /\ \A k \in 1..(n - 1) : s[k] = t[k]
        /\ (n = Len(s) + 1 \/ s[n] < t[n])

\* Python's s < t for two lists of tuples of integers.
ListLess(s, t) ==
    \E n \in 1..(Len(s) + 1) :
        /\ n <= Len(t)
        /\ \A k \in 1..(n - 1) : s[k] = t[k]
        /\ (n = Len(s) + 1 \/ TupleLess(s[n], t[n]))

\* xs concatenated over a sequence of sequences.
Flatten(xss) ==
    LET F[n \in 0..Len(xss)] == IF n = 0 THEN <<>> ELSE F[n - 1] \o xss[n]
    IN  F[Len(xss)]

\* ------------------------------------------------------- _path_optimal
\* The cost of one contraction without the doubling of line 66.
StepCostFlat(c, ind_dict) == ComputeSizeSet(c.index_contract, ind_dict)

\* The cost _path_optimal gives one contraction.
StepCost(c, ind_dict) ==
    LET new_cost == ComputeSizeSet(c.index_contract, ind_dict)
    IN  IF Cardinality(c.index_removed) > 0 THEN new_cost * 2 ELSE new_cost

\* The inner loop of _path_optimal for one candidate: its extensions by every
\* pair whose result fits in memory, in the order of comb_iter.
Extensions(curr, comb_iter, out_set, ind_dict, memory) ==
    LET ext(con) ==
            LET c == FindContraction({con[1], con[2]}, curr.remaining, out_set)
            IN  [cost      |-> StepCost(c, ind_dict) + curr.cost,
                 positions |-> Append(curr.positions, con),
                 remaining |-> c.remaining,
                 size      |-> ComputeSizeSet(c.new_result, ind_dict)]
        all  == [k \in DOMAIN comb_iter |-> ext(comb_iter[k])]
        kept == SelectSeq(all, LAMBDA e : ~(e.size > memory))
    IN  [k \in DOMAIN kept |->
           [cost |-> kept[k].cost, positions |-> kept[k].positions,
            remaining |-> kept[k].remaining]]

\* One iteration of the outer loop of _path_optimal: the list `new` built from
\* the list `current`, with `live` operands left.
OptimalRound(current, live, out_set, ind_dict, memory) ==
    Flatten([k \in DOMAIN current |->
               Extensions(current[k], TriuIndices(live), out_set, ind_dict, memory)])

\* new.sort() followed by new[0]: the least tuple (cost, positions, remaining).
\* Two entries of `new` never share their positions, so the comparison never
\* reaches the third component.
SortedFirst(new) ==
    LET less(a, b) == \/ a.cost < b.cost
                      \/ a.cost = b.cost /\ ListLess(a.positions, b.positions)
    IN  CHOOSE a \in StrSet(new) : \A b \in StrSet(new) : b = a \/ less(a, b)

\* The end of _path_optimal with the last candidate found in place of the
\* cheapest.
OptimalResultLast(new, n) ==
    IF Len(new) = 0 THEN <<Range(n)>> ELSE new[Len(new)].positions

\* The end of _path_optimal: the single full contraction when nothing was
\* found, else the positions of the cheapest candidate.
OptimalResult(new, n) ==
    IF Len(new) = 0 THEN <<Range(n)>> ELSE SortedFirst(new).positions

RECURSIVE OptimalLoop(_, _, _, _, _, _)
\* The outer loop of _path_optimal from iteration `iteration` on; yields the
\* list `new` of the last iteration.
OptimalLoop(current, iteration, n, out_set, ind_dict, memory) ==
    LET new == OptimalRound(current, n - iteration, out_set, ind_dict, memory)
    IN  IF iteration + 1 >= n - 1 THEN new
        ELSE OptimalLoop(new, iteration + 1, n, out_set, ind_dict, memory)

\* The list `current` _path_optimal starts from.
OptimalStart(inp) ==
    <<[cost |-> 0, positions |-> <<>>, remaining |-> [n \in DOMAIN inp |-> StrSet(inp[n])]]>>

\* _path_optimal(inp, out, ind_dict, memory) for len(inp) >= 2.  With one
\* operand the loop body never runs and the function raises at line 80, where
\* `new` is unbound.
PathOptimal(inp, out, ind_dict, memory) ==
    OptimalResult(OptimalLoop(OptimalStart(inp), 0, Len(inp), StrSet(out), ind_dict, memory),
                  Len(inp))

\* -------------------------------------------------- _path_opportunistic
\* The candidates of one iteration of _path_opportunistic, in the order of
\* comb_iter: the pairs whose result fits in memory, with their sort key.
IterationResults(inp_set, out_set, ind_dict, memory) ==
    LET comb_iter == TriuIndices(Len(inp_set))
        cand(positions) ==
            LET c == FindContraction({positions[1], positions[2]}, inp_set, out_set)
            IN  [sort      |-> <<0 - ComputeSizeSet(c.index_removed, ind_dict),
                                 ComputeSizeSet(c.index_contract, ind_dict)>>,
                 positions |-> positions,
                 new_inp   |-> c.remaining,
                 size      |-> ComputeSizeSet(c.new_result, ind_dict)]
        all  == [k \in DOMAIN comb_iter |-> cand(comb_iter[k])]
        kept == SelectSeq(all, LAMBDA e : ~(e.size > memory))
    IN  [k \in DOMAIN kept |->
           [sort |-> kept[k].sort, positions |-> kept[k].positions,
            new_inp |-> kept[k].new_inp]]

\* iteration_results[0] without the sort.
FirstFound(iteration_results) == iteration_results[1]

\* iteration_results.sort() followed by iteration_results[0]: the least list
\* [sort, positions, new_inp].  The positions of two candidates differ.
Best(iteration_results) ==
    LET less(a, b) == \/ TupleLess(a.sort, b.sort)
                      \/ a.sort = b.sort /\ TupleLess(a.positions, b.positions)
    IN  CHOOSE a \in StrSet(iteration_results) :
            \A b \in StrSet(iteration_results) : b = a \/ less(a, b)

RECURSIVE OpportunisticLoop(_, _, _, _, _, _, _)
\* The loop of _path_opportunistic from iteration `iteration` on; yields path.
OpportunisticLoop(path, inp_set, iteration, n, out_set, ind_dict, memory) ==
    IF iteration >= n - 1 THEN path
    ELSE LET iteration_results == IterationResults(inp_set, out_set, ind_dict, memory)
         IN  IF Len(iteration_results) = 0
             THEN Append(path, Range(n - iteration))
             ELSE OpportunisticLoop(Append(path, Best(iteration_results).positions),
                                    Best(iteration_results).new_inp,
                                    iteration + 1, n, out_set, ind_dict, memory)

\* _path_opportunistic(inp, out, ind_dict, memory).
PathOpportunistic(inp, out, ind_dict, memory) ==
    OpportunisticLoop(<<>>, [n \in DOMAIN inp |-> StrSet(inp[n])], 0, Len(inp),
                      StrSet(out), ind_dict, memory)

\* ------------------------------------------------------ one contraction
\* term with every occurrence of the labels in S removed: str.replace(s, '').
Strip(term, S) == SelectSeq(term, LAMBDA l : l \notin S)

\* Python's term[:n] and term[-n:] for n >= 1.
Prefix(term, n) == SubSeq(term, 1, IF n < Len(term) THEN n ELSE Len(term))
Suffix(term, n) == SubSeq(term, IF n < Len(term) THEN Len(term) - n + 1 ELSE 1, Len(term))

\* term.find(l): the 0-based position of the first l, -1 when there is none.
Find(term, l) ==
    IF l \in StrSet(term)
    THEN (CHOOSE n \in DOMAIN term :
              term[n] = l /\ \A k \in DOMAIN term : term[k] = l => n <= k) - 1
    ELSE 0 - 1

\* sorted([(dimension_dict[ind], ind) for ind in out_inds]) read off as labels.
SortByDim(out_inds, dimension_dict) ==
    LET less(a, b) == \/ dimension_dict[a] < dimension_dict[b]
                      \/ dimension_dict[a] = dimension_dict[b] /\ Ord(a) < Ord(b)
    IN  [k \in 1..Cardinality(out_inds) |->
           CHOOSE a \in out_inds : Cardinality({b \in out_inds : less(b, a)}) = k - 1]

\* The entries of xs at the 0-based positions listed in `inds`: the pops of
\* lines 278-280.
Popped(xs, inds) == [k \in DOMAIN inds |-> xs[inds[k] + 1]]

\* sorted(list(contract_inds), reverse=True).
SortedReverse(contract_inds) ==
    LET S == StrSet(contract_inds)
    IN  [k \in 1..Len(contract_inds) |->
           CHOOSE a \in S : Cardinality({b \in S : b > a}) = k - 1]

\* can_tdot without the test of line 287.
CanTdotAny(tdot_arg, tmp_input, index_removed) ==
    tdot_arg /\ Len(tmp_input) = 2 /\ Cardinality(index_removed) > 0

\* can_tdot of lines 283-287.
CanTdot(tdot_arg, tmp_input, index_removed) ==
    LET tdot_result == Strip(tmp_input[1] \o tmp_input[2], index_removed)
        left        == StrSet(tmp_input[1])
        right       == StrSet(tmp_input[2])
    IN  /\ tdot_arg
        /\ Len(tmp_input) = 2
        /\ Cardinality(index_removed) > 0
        /\ ((left \ right) \cup (right \ left)) = StrSet(tdot_result)

\* What one branch of the loop body produced: whether numpy accepted every
\* call, the branch, the new term and view and the reshapes issued, and for the
\* tensordot branch the two normalised terms and the run of labels matched.
Produced(ok, branch, index_result, new_view, reshapes, input_left, input_right, run) ==
    [ok |-> ok, branch |-> branch, index_result |-> index_result,
     new_view |-> new_view, reshapes |-> reshapes,
     input_left |-> input_left, input_right |-> input_right, run |-> run]

\* Lines 361-367: the product given its expected shape: reshaped when the
\* shapes differ and a label is left, squeezed when none is.
ShapeFixed(new_view, shape_result) ==
    IF new_view.shape = shape_result THEN new_view
    ELSE IF Len(shape_result) > 0 THEN Reshape(new_view, shape_result)
    ELSE Squeeze(new_view)

\* The reshape lines 361-365 issue, if any.
ShapeFixReshapes(new_view, shape_result) ==
    IF new_view.shape # shape_result /\ Len(shape_result) > 0
    THEN <<[count |-> Size(new_view), shape |-> shape_result]>>
    ELSE <<>>

\* Lines 328-345: which of the tests on the two terms is the first to hold.
Variant(input_left, input_right, rs, keep_left, keep_right) ==
    CASE input_left = input_right -> "vectordot"
      [] input_left # input_right
         /\ Suffix(input_left, rs) = Prefix(input_right, rs) -> "matmul"
      [] input_left # input_right
         /\ Suffix(input_left, rs) # Prefix(input_right, rs)
         /\ Prefix(input_left, rs) = Suffix(input_right, rs) -> "matmul_tt"
      [] input_left # input_right
         /\ Suffix(input_left, rs) # Prefix(input_right, rs)
         /\ Prefix(input_left, rs) # Suffix(input_right, rs)
         /\ Suffix(input_left, rs) = Suffix(input_right, rs) -> "matmul_nt"
      [] input_left # input_right
         /\ Suffix(input_left, rs) # Prefix(input_right, rs)
         /\ Prefix(input_left, rs) # Suffix(input_right, rs)
         /\ Suffix(input_left, rs) # Suffix(input_right, rs)
         /\ Prefix(input_left, rs) = Prefix(input_right, rs) -> "matmul_tn"
      [] OTHER -> IF Cardinality(keep_left) = 0 \/ Cardinality(keep_right) = 0
                  THEN "einsum2" ELSE "tensordot"

\* The run of rs labels of input_left that the test of the variant matched.
MatchedRun(variant, input_left, rs) ==
    IF variant \in {"matmul", "matmul_nt"} THEN Suffix(input_left, rs)
    ELSE IF variant \in {"matmul_tt", "matmul_tn"} THEN Prefix(input_left, rs)
    ELSE <<>>

\* The shapes the two views are reshaped to in lines 329-345, each before its
\* transpose.
LeftShape(variant, dim_left, dim_removed) ==
    IF variant \in {"matmul", "matmul_nt"} THEN <<dim_left, dim_removed>>
    ELSE <<dim_removed, dim_left>>
RightShape(variant, dim_right, dim_removed) ==
    IF variant \in {"matmul", "matmul_tn"} THEN <<dim_removed, dim_right>>
    ELSE <<dim_right, dim_removed>>

\* The reshapes issued before the multiply.
MatMulReshapes(variant, view_left, view_right, shape_left, shape_right) ==
    IF variant \in {"matmul", "matmul_tt", "matmul_nt", "matmul_tn"}
    THEN <<[count |-> Size(view_left), shape |-> shape_left],
           [count |-> Size(view_right), shape |-> shape_right]>>
    ELSE <<>>

\* The two matrices of lines 329-345: the reshaped view, transposed where the
\* variant says so.
RightMatrixPlain(variant, view_right, shape_right) == Reshape(view_right, shape_right)
LeftMatrix(variant, view_left, shape_left) ==
    IF variant \in {"matmul_tt", "matmul_tn"}
    THEN Transpose2D(Reshape(view_left, shape_left))
    ELSE Reshape(view_left, shape_left)
RightMatrix(variant, view_right, shape_right) ==
    IF variant \in {"matmul_tt", "matmul_nt"}
    THEN Transpose2D(Reshape(view_right, shape_right))
    ELSE Reshape(view_right, shape_right)

\* The axes lines 355-358 hand to np.tensordot, one per removed label; numpy
\* reads the -1 of a label that find() misses as the last axis.
AxisOf(term, removed_seq) ==
    [k \in DOMAIN removed_seq |->
       IF Find(term, removed_seq[k]) < 0 THEN Len(term) - 1
       ELSE Find(term, removed_seq[k])]

\* Lines 323-359: numpy accepts the calls of the variant.
ProductOK(variant, input_left, input_right, view_left, view_right, shape_left, shape_right, index_result, left_pos, right_pos) ==
    CASE variant = "vectordot" -> DotOK(Ravel(view_left), Ravel(view_right))
      [] variant = "einsum2" ->
           EinsumOK(<<input_left, input_right>>, index_result, <<view_left, view_right>>)
      [] variant = "tensordot" -> TensordotOK(view_left, view_right, left_pos, right_pos)
      [] OTHER -> /\ ReshapeOK(view_left, shape_left)
                  /\ ReshapeOK(view_right, shape_right)
                  /\ DotOK(LeftMatrix(variant, view_left, shape_left),
                           RightMatrix(variant, view_right, shape_right))

\* Lines 323-359: the product of the two views by the variant's primitive.
Product(variant, input_left, input_right, view_left, view_right, shape_left, shape_right, index_result, left_pos, right_pos) ==
    IF variant \in {"einsum2", "tensordot"}
    THEN Einsum(IF variant = "einsum2" THEN <<input_left, input_right>>
                ELSE <<[n \in DOMAIN view_left.shape |-> n],
                       TensordotRight(Len(view_left.shape), Len(view_right.shape),
                                      left_pos, right_pos)>>,
                IF variant = "einsum2" THEN index_result
                ELSE TensordotOut(Len(view_left.shape), Len(view_right.shape),
                                  left_pos, right_pos),
                <<view_left, view_right>>)
    ELSE IF variant = "vectordot" THEN Dot(Ravel(view_left), Ravel(view_right))
    ELSE Dot(LeftMatrix(variant, view_left, shape_left),
             RightMatrix(variant, view_right, shape_right))

\* Lines 361-367 after the product.
Fixed(ok, variant, index_result, shape_result, product, reshapes, input_left, input_right, run) ==
    Produced(ok /\ (product.shape = shape_result \/ Len(shape_result) = 0
                    \/ ReshapeOK(product, shape_result)),
             variant, index_result,
             IF ok THEN ShapeFixed(product, shape_result) ELSE product,
             IF ok THEN reshapes \o ShapeFixReshapes(product, shape_result) ELSE reshapes,
             input_left, input_right, run)

\* Lines 313-367 for one variant.
Multiplied(variant, input_left, input_right, view_left, view_right, norm_ok, shape_left, shape_right, index_result, left_pos, right_pos, rs, dimension_dict) ==
    Fixed(norm_ok /\ ProductOK(variant, input_left, input_right, view_left, view_right,
                               shape_left, shape_right, index_result, left_pos, right_pos),
          variant, index_result,
          [n \in DOMAIN index_result |-> dimension_dict[index_result[n]]],
          IF norm_ok /\ ProductOK(variant, input_left, input_right, view_left, view_right,
                                  shape_left, shape_right, index_result, left_pos, right_pos)
          THEN Product(variant, input_left, input_right, view_left, view_right,
                       shape_left, shape_right, index_result, left_pos, right_pos)
          ELSE view_left,
          IF norm_ok
          THEN MatMulReshapes(variant, view_left, view_right, shape_left, shape_right)
          ELSE <<>>,
          input_left, input_right, MatchedRun(variant, input_left, rs))

\* Lines 313-319 for the two normalised terms and views.
Aligned(variant, input_left, input_right, view_left, view_right, norm_ok, index_removed, keep_left, keep_right, dimension_dict) ==
    Multiplied(variant, input_left, input_right, view_left, view_right, norm_ok,
               LeftShape(variant, ComputeSizeSet(keep_left, dimension_dict),
                         ComputeSizeSet(index_removed, dimension_dict)),
               RightShape(variant, ComputeSizeSet(keep_right, dimension_dict),
                          ComputeSizeSet(index_removed, dimension_dict)),
               Strip(input_left \o input_right, index_removed),
               AxisOf(input_left, SortByDim(index_removed, dimension_dict)),
               AxisOf(input_right, SortByDim(index_removed, dimension_dict)),
               Cardinality(index_removed), dimension_dict)

\* Lines 302-310 for one operand: a term with a repeated label is reduced to
\* new_inds first.
Normalised(term, view, new_inds) ==
    IF Cardinality(StrSet(term)) # Len(term) THEN Einsum(<<term>>, new_inds, <<view>>)
    ELSE view
NormalisedTerm(term, new_inds) ==
    IF Cardinality(StrSet(term)) # Len(term) THEN new_inds ELSE term
NormalisedOK(term, view, new_inds) ==
    Cardinality(StrSet(term)) # Len(term) => EinsumOK(<<term>>, new_inds, <<view>>)

\* Lines 296-367 once the two terms are normalised.
TensordotNormalised(input_left, input_right, view_left, view_right, norm_ok, index_removed, keep_left, keep_right, dimension_dict) ==
    Aligned(Variant(input_left, input_right, Cardinality(index_removed), keep_left, keep_right),
            input_left, input_right, view_left, view_right, norm_ok,
            index_removed, keep_left, keep_right, dimension_dict)

\* The tensordot branch, lines 296-367.  join_left, join_removed and join_right
\* are the orders in which ''.join iterates keep_left, index_removed and
\* keep_right.
TensordotBranch(tmp_input, tmp_views, index_removed, dimension_dict, join_left, join_removed, join_right) ==
    TensordotNormalised(
        NormalisedTerm(tmp_input[1], join_left \o join_removed),
        NormalisedTerm(tmp_input[2], join_removed \o join_right),
        Normalised(tmp_input[1], tmp_views[1], join_left \o join_removed),
        Normalised(tmp_input[2], tmp_views[2], join_removed \o join_right),
        /\ NormalisedOK(tmp_input[1], tmp_views[1], join_left \o join_removed)
        /\ NormalisedOK(tmp_input[2], tmp_views[2], join_removed \o join_right),
        index_removed,
        StrSet(tmp_input[1]) \ index_removed,
        StrSet(tmp_input[2]) \ index_removed,
        dimension_dict)

\* The scalar product, lines 290-292.
ScalarBranch(tmp_input, tmp_views) ==
    Produced(DotOK(tmp_views[1], tmp_views[2]), "scalar", tmp_input[1] \o tmp_input[2],
             Dot(tmp_views[1], tmp_views[2]), <<>>, <<>>, <<>>, <<>>)

\* The conventional einsum, lines 370-375; index_result is the sorted out_inds.
EinsumBranch(tmp_input, tmp_views, index_result) ==
    Produced(EinsumOK(tmp_input, index_result, tmp_views), "einsum", index_result,
             IF EinsumOK(tmp_input, index_result, tmp_views)
             THEN Einsum(tmp_input, index_result, tmp_views) ELSE tmp_views[1],
             <<>>, <<>>, <<>>, <<>>)

\* Lines 289-375: the branch taken and what it produced.
Primitive(tmp_input, tmp_views, out_inds, index_removed, can_tdot, dimension_dict, join_left, join_removed, join_right) ==
    IF (Len(tmp_input[1]) = 0 \/ Len(tmp_input[2]) = 0) /\ Len(tmp_views) = 2
    THEN ScalarBranch(tmp_input, tmp_views)
    ELSE IF can_tdot
    THEN TensordotBranch(tmp_input, tmp_views, index_removed, dimension_dict,
                         join_left, join_removed, join_right)
    ELSE EinsumBranch(tmp_input, tmp_views, SortByDim(out_inds, dimension_dict))

\* Lines 383-385: the new term and view appended to the live lists.
Folded(c, can_tdot, done, rest_input, rest_views) ==
    [ok            |-> done.ok,
     branch        |-> done.branch,
     can_tdot      |-> can_tdot,
     out_inds      |-> c.new_result,
     index_removed |-> c.index_removed,
     index_result  |-> done.index_result,
     reshapes      |-> done.reshapes,
     input_left    |-> done.input_left,
     input_right   |-> done.input_right,
     run           |-> done.run,
     input_set     |-> c.remaining,
     input_list    |-> Append(rest_input, done.index_result),
     views         |-> Append(rest_views, done.new_view)]

\* Lines 272-375 for the positions contract_inds, sorted from right to left.
Popping(contract_inds, c, input_list, views, dimension_dict, tdot_arg, join_left, join_removed, join_right) ==
    Folded(c,
           CanTdot(tdot_arg, Popped(input_list, contract_inds), c.index_removed),
           Primitive(Popped(input_list, contract_inds), Popped(views, contract_inds),
                     c.new_result, c.index_removed,
                     CanTdot(tdot_arg, Popped(input_list, contract_inds), c.index_removed),
                     dimension_dict, join_left, join_removed, join_right),
           Untouched(StrSet(contract_inds), input_list),
           Untouched(StrSet(contract_inds), views))

\* The body of the contraction loop for one step of the path, lines 268-386.
Contraction(step_inds, input_set, input_list, views, output_set, dimension_dict, tdot_arg, join_left, join_removed, join_right) ==
    Popping(SortedReverse(step_inds),
            FindContraction(StrSet(step_inds), input_set, output_set),
            input_list, views, dimension_dict, tdot_arg,
            join_left, join_removed, join_right)

\* ------------------------------------------------------------ the call
VARIABLES
    string,          \* the expression: [input |-> the terms, output |-> the output term]
    operands,        \* the caller's arrays, one per term
    kwargs,          \* [path, memory (<<>> when not given), tensordot, return_path]
    pc,              \* where the call is
    input_list,      \* the live terms
    input_set,       \* their label sets
    views,           \* the live arrays
    dimension_dict,  \* label -> extent
    memory,          \* the planner's memory argument
    inp_set,         \* _path_opportunistic: the live label sets
    current,         \* _path_optimal: the candidates of the previous iteration
    iteration,       \* the planners' loop counter
    path,            \* the plan
    step,            \* the next step of path to contract
    round_log,       \* the last iteration of _path_opportunistic
    step_log,        \* the last contraction of the loop
    result,          \* what the call returned
    error            \* the exception the call raised

vars == <<string, operands, kwargs, pc, input_list, input_set, views,
          dimension_dict, memory, inp_set, current, iteration, path, step,
          round_log, step_log, result, error>>

NoRound == [live |-> <<>>, candidates |-> <<>>, committed |-> <<>>]
NoStep ==
    [branch |-> "none", can_tdot |-> FALSE, out_inds |-> {}, index_removed |-> {},
     index_result |-> <<>>, reshapes |-> <<>>, input_left |-> <<>>,
     input_right |-> <<>>, run |-> <<>>]
NoResult == [kind |-> "none", value |-> <<>>]

\* Lines 192-194: output_set and indices.
output_set == StrSet(string.output)
indices == UNION {StrSet(string.input[n]) : n \in DOMAIN string.input}

\* Lines 218-222: the largest of the operands' sizes and the output's size.
OutSize(terms, output_string, ind_dict) ==
    LET size_list == [n \in 1..(Len(terms) + 1) |->
                        ComputeSizeStr(IF n <= Len(terms) THEN terms[n] ELSE output_string,
                                       ind_dict)]
    IN  CHOOSE m \in StrSet(size_list) : \A v \in StrSet(size_list) : v <= m

out_size == OutSize(string.input, string.output, dimension_dict)

\* Line 232: the product of the extents of every label of the expression.
total_flops == ComputeSizeSet(indices, dimension_dict)

\* Line 228: kwargs.get("memory", out_size).
memory_arg == IF kwargs.memory = <<>> THEN out_size ELSE kwargs.memory[1]

\* np.einsum(string, *views): the whole contraction in one reduction.
WholeEinsum == Einsum(string.input, string.output, operands)

\* The state at line 218 of a call whose arguments passed the checks of lines
\* 187-216: one array per term, one axis per label, one extent per label.
StartOf(terms, output_string, ind_dict, kw) ==
    /\ string = [input |-> terms, output |-> output_string]
    /\ operands = [n \in DOMAIN terms |-> Operand(n - 1, terms[n], ind_dict)]
    /\ kwargs = kw
    /\ pc = "start"
    /\ input_list = terms
    /\ input_set = [n \in DOMAIN terms |-> StrSet(terms[n])]
    /\ views = operands
    /\ dimension_dict = ind_dict
    /\ memory = 0
    /\ inp_set = <<>>
    /\ current = <<>>
    /\ iteration = 0
    /\ path = <<>>
    /\ step = 1
    /\ round_log = NoRound
    /\ step_log = NoStep
    /\ result = NoResult
    /\ error = "none"

exec_vars == <<input_list, input_set, views, step, step_log>>
plan_vars == <<memory, inp_set, current, iteration, path, round_log>>
call_vars == <<string, operands, kwargs, dimension_dict>>

\* Lines 233-234: a small contraction is left to einsum.
SmallContraction ==
    /\ pc = "start"
    /\ total_flops < SmallLimit /\ ~kwargs.return_path
    /\ result' = [kind |-> "array", value |-> WholeEinsum]
    /\ pc' = "done"
    /\ UNCHANGED <<call_vars, plan_vars, exec_vars, error>>

\* Lines 237-238: no rank reduction, left to einsum.
NoRankReduction ==
    /\ pc = "start"
    /\ ~(total_flops < SmallLimit /\ ~kwargs.return_path)
    /\ indices = output_set /\ ~kwargs.return_path
    /\ result' = [kind |-> "array", value |-> WholeEinsum]
    /\ pc' = "done"
    /\ UNCHANGED <<call_vars, plan_vars, exec_vars, error>>

\* The call reaches line 245.
Planning ==
    /\ pc = "start"
    /\ ~(total_flops < SmallLimit /\ ~kwargs.return_path)
    /\ ~(indices = output_set /\ ~kwargs.return_path)

\* Lines 247-248: two operands.
PathPair ==
    /\ Planning
    /\ Len(input_list) = 2
    /\ path' = <<<<0, 1>>>>
    /\ pc' = "planned"
    /\ UNCHANGED <<call_vars, memory, inp_set, current, iteration, round_log,
                   exec_vars, result, error>>

\* The ceiling handed to a planner with the caller's value taken as it is.
Unclamped(memory_value, size) == memory_value

\* Line 251: min(memory_arg, out_size).
Clamped(memory_value, size) == IF memory_value < size THEN memory_value ELSE size

\* Lines 249-252 and 97-100: _path_opportunistic is entered.
StartOpportunistic ==
    /\ Planning
    /\ Len(input_list) # 2
    /\ kwargs.path = "opportunistic"
    /\ memory' = Clamped(memory_arg, out_size)
    /\ inp_set' = [n \in DOMAIN input_list |-> StrSet(input_list[n])]
    /\ path' = <<>>
    /\ iteration' = 0
    /\ pc' = IF Len(input_list) - 1 > 0 THEN "opportunistic" ELSE "planned"
    /\ UNCHANGED <<call_vars, current, round_log, exec_vars, result, error>>

\* Lines 101-132: one iteration of the loop of _path_opportunistic.
OpportunisticIteration ==
    /\ pc = "opportunistic"
    /\ \E n \in {Len(string.input)} :
       \E iteration_results \in {IterationResults(inp_set, output_set, dimension_dict, memory)} :
           IF Len(iteration_results) = 0
           THEN /\ path' = Append(path, Range(n - iteration))
                /\ round_log' = [live |-> inp_set, candidates |-> iteration_results,
                                 committed |-> Range(n - iteration)]
                /\ pc' = "planned"
                /\ UNCHANGED <<inp_set, iteration>>
           ELSE /\ path' = Append(path, Best(iteration_results).positions)
                /\ inp_set' = Best(iteration_results).new_inp
                /\ round_log' = [live |-> inp_set, candidates |-> iteration_results,
                                 committed |-> Best(iteration_results).positions]
                /\ iteration' = iteration + 1
                /\ pc' = IF iteration + 1 < n - 1 THEN "opportunistic" ELSE "planned"
    /\ UNCHANGED <<call_vars, memory, current, exec_vars, result, error>>

\* Lines 253-254 and 47-50: _path_optimal is entered.  With a single operand
\* the loop of line 51 has no iteration and line 80 reads `new` unbound.
StartOptimal ==
    /\ Planning
    /\ Len(input_list) # 2
    /\ kwargs.path = "optimal"
    /\ memory' = memory_arg
    /\ current' = OptimalStart(input_list)
    /\ iteration' = 0
    /\ IF Len(input_list) - 1 > 0
       THEN pc' = "optimal" /\ error' = error
       ELSE pc' = "raised" /\ error' = "UnboundLocalError"
    /\ UNCHANGED <<call_vars, inp_set, path, round_log, exec_vars, result>>

\* Lines 51-85: one iteration of the outer loop of _path_optimal, and after the
\* last one the choice of the path.
OptimalIteration ==
    /\ pc = "optimal"
    /\ \E n \in {Len(string.input)} :
       \E new \in {OptimalRound(current, n - iteration, output_set, dimension_dict, memory)} :
           /\ current' = new
           /\ iteration' = iteration + 1
           /\ IF iteration + 1 < n - 1
              THEN pc' = "optimal" /\ path' = path
              ELSE pc' = "planned" /\ path' = OptimalResult(new, n)
    /\ UNCHANGED <<call_vars, memory, inp_set, round_log, exec_vars, result, error>>

\* Lines 255-256: the name of no strategy.
UnknownPath ==
    /\ Planning
    /\ Len(input_list) # 2
    /\ kwargs.path \notin {"opportunistic", "optimal"}
    /\ pc' = "raised"
    /\ error' = "KeyError"
    /\ UNCHANGED <<call_vars, plan_vars, exec_vars, result>>

\* Lines 259-260: the path is what the caller asked for.
ReturnPath ==
    /\ pc = "planned"
    /\ kwargs.return_path
    /\ result' = [kind |-> "path", value |-> path]
    /\ pc' = "done"
    /\ UNCHANGED <<call_vars, plan_vars, exec_vars, error>>

\* Lines 268-386: one step of the path is contracted.
ContractStep ==
    /\ pc = "planned"
    /\ ~kwargs.return_path
    /\ step <= Len(path)
    /\ LET contract_inds == SortedReverse(path[step])
           tmp_input     == Popped(input_list, contract_inds)
           removed       == FindContraction(StrSet(contract_inds), input_set,
                                            output_set).index_removed
           tdot          == /\ ~((Len(tmp_input[1]) = 0 \/ Len(tmp_input[2]) = 0)
                                 /\ Len(tmp_input) = 2)
                            /\ CanTdot(kwargs.tensordot, tmp_input, removed)
           dup_left      == tdot /\ Cardinality(StrSet(tmp_input[1])) # Len(tmp_input[1])
           dup_right     == tdot /\ Cardinality(StrSet(tmp_input[2])) # Len(tmp_input[2])
       IN  \E join_left \in IF dup_left THEN Orders(StrSet(tmp_input[1]) \ removed)
                            ELSE {<<>>} :
           \E join_removed \in IF dup_left \/ dup_right THEN Orders(removed) ELSE {<<>>} :
           \E join_right \in IF dup_right THEN Orders(StrSet(tmp_input[2]) \ removed)
                             ELSE {<<>>} :
              \E c \in {Contraction(path[step], input_set, input_list, views, output_set,
                                     dimension_dict, kwargs.tensordot,
                                     join_left, join_removed, join_right)} :
                  /\ step_log' = [branch |-> c.branch, can_tdot |-> c.can_tdot,
                                  out_inds |-> c.out_inds,
                                  index_removed |-> c.index_removed,
                                  index_result |-> c.index_result,
                                  reshapes |-> c.reshapes,
                                  input_left |-> c.input_left,
                                  input_right |-> c.input_right, run |-> c.run]
                  /\ IF c.ok
                     THEN /\ input_set' = c.input_set
                          /\ input_list' = c.input_list
                          /\ views' = c.views
                          /\ step' = step + 1
                          /\ UNCHANGED <<pc, error>>
                     ELSE /\ pc' = "raised"
                          /\ error' = "ValueError"
                          /\ UNCHANGED <<input_set, input_list, views, step>>
    /\ UNCHANGED <<call_vars, plan_vars, result>>

\* Lines 388-392: the last view, transposed into the output's order if needed.
FinalTranspose ==
    /\ pc = "planned"
    /\ ~kwargs.return_path
    /\ step > Len(path)
    /\ IF input_list[1] = string.output
       THEN /\ result' = [kind |-> "array", value |-> views[1]]
            /\ pc' = "done"
            /\ error' = error
       ELSE IF EinsumOK(<<input_list[1]>>, string.output, <<views[1]>>)
       THEN /\ result' = [kind |-> "array",
                          value |-> Einsum(<<input_list[1]>>, string.output, <<views[1]>>)]
            /\ pc' = "done"
            /\ error' = error
       ELSE /\ pc' = "raised"
            /\ error' = "ValueError"
            /\ result' = result
    /\ UNCHANGED <<call_vars, plan_vars, exec_vars>>

\* -------------------------------------------------------------- inputs
\* The terms an expression of n operands is built from.
WideTerms ==
    {<<>>, <<"i">>, <<"i", "j">>, <<"j", "i">>, <<"j", "k">>, <<"k", "j">>,
     <<"i", "i">>, <<"i", "j", "k">>, <<"j", "l">>}
NarrowTerms == {<<>>, <<"i", "j">>, <<"j", "k">>, <<"k", "i">>}
TermPool(n) == IF n <= 2 THEN WideTerms ELSE NarrowTerms

LabelsOf(terms) == UNION {StrSet(terms[n]) : n \in DOMAIN terms}

\* The dimension tables of a label set: every extent is MaxDim, but for at most
\* one label, whose extent is smaller.
DimTables(L) ==
    {d \in [L -> 1..MaxDim] : Cardinality({l \in L : d[l] # MaxDim}) <= 1}

\* The output terms over a label set: distinct labels of the input, at most two.
Outputs(L) == UNION {Orders(S) : S \in {T \in SUBSET L : Cardinality(T) <= 2}}

\* The names a caller may give as path; "exhaustive" names no strategy.
PathArgs == {"opportunistic", "optimal", "exhaustive"}

ExecKwargs ==
    [path : PathArgs, memory : {<<>>, <<1>>}, tensordot : {TRUE}, return_path : {FALSE}]

Init ==
    \E n \in 1..MaxOperands :
    \E terms \in [1..n -> TermPool(n)] :
    \E output_string \in Outputs(LabelsOf(terms)) :
    \E ind_dict \in DimTables(LabelsOf(terms)) :
    \E kw \in ExecKwargs :
        StartOf(terms, output_string, ind_dict, kw)

Next ==
    \/ SmallContraction
    \/ NoRankReduction
    \/ PathPair
    \/ StartOpportunistic
    \/ OpportunisticIteration
    \/ StartOptimal
    \/ OptimalIteration
    \/ UnknownPath
    \/ ContractStep
    \/ FinalTranspose

Spec == Init /\ [][Next]_vars

\* ------------------------------------------------- the planner alone
\* Calls with return_path=True: lines 233-238 are skipped and the call ends at
\* line 260, so that wider expressions stay within reach.
PlanOperands == MaxOperands + 1
PlanTerms(n) ==
    IF n <= MaxOperands
    THEN {<<>>, <<"i">>, <<"i", "j">>, <<"j", "k">>, <<"k", "i">>}
    ELSE {<<"i", "j">>, <<"j", "k">>, <<"k", "l">>}

\* The output terms of the planner's calls: no label or one.
PlanOutputs(L) == {<<>>} \cup {<<l>> : l \in L}

\* The ceilings a caller gives: below, at and above the sizes of the operands.
Ceilings == {1, MaxDim, MaxDim * MaxDim * MaxDim}

PlanKwargs ==
    [path : {"opportunistic", "optimal"}, memory : {<<>>} \cup {<<m>> : m \in Ceilings},
     tensordot : {TRUE}, return_path : {TRUE}]
    \cup [path : {"exhaustive"}, memory : {<<>>}, tensordot : {TRUE}, return_path : {TRUE}]

InitPlan ==
    \E n \in 1..PlanOperands :
    \E terms \in [1..n -> PlanTerms(n)] :
    \E output_string \in PlanOutputs(LabelsOf(terms)) :
    \E ind_dict \in DimTables(LabelsOf(terms)) :
    \E kw \in PlanKwargs :
        StartOf(terms, output_string, ind_dict, kw)

NextPlan ==
    \/ PathPair
    \/ StartOpportunistic
    \/ OpportunisticIteration
    \/ StartOptimal
    \/ OptimalIteration
    \/ UnknownPath
    \/ ReturnPath

SpecPlan == InitPlan /\ [][NextPlan]_vars

\* ------------------------------------------------------------- claims
\* The executor's loop has run over the whole path.
Executed == pc = "planned" /\ ~kwargs.return_path /\ step > Len(path)

Aligned4 == {"matmul", "matmul_tt", "matmul_nt", "matmul_tn"}
TensordotVariants == Aligned4 \cup {"vectordot", "einsum2", "tensordot"}

\* C1: the array a call returns equals, entry by entry and in the order of the
\* output term, np.einsum over all the operands at once, and no primitive of
\* the executor rejects its arguments.
C1_ResultIsWholeEinsum ==
    /\ result.kind = "array" => result.value = WholeEinsum
    /\ error # "ValueError"

\* A call of three operands whose two steps ran, the last one through an
\* aligned matrix product, and whose result needed the final transpose.
C1_Witness ==
    /\ pc = "done" /\ result.kind = "array"
    /\ Len(string.input) = 3 /\ Len(path) = 2 /\ step = 3
    /\ step_log.branch \in Aligned4
    /\ input_list[1] # string.output

\* C2: the plan has at most N-1 steps, and once the executor has run over it
\* one term is left whose label set is the output's label set (stated for the
\* calls of at least two operands, whose plan has a step).
C2_PlanLeavesOutput ==
    (Executed /\ Len(string.input) >= 2) =>
        /\ Len(path) <= Len(string.input) - 1
        /\ Len(input_list) = 1
        /\ StrSet(input_list[1]) = output_set

\* C6: a call that names no known strategy ends with the KeyError of line 256,
\* whatever the number of operands, and nothing else happens in it (the calls
\* that lines 233-238 hand to einsum before the path is chosen are left aside).
C6_UnknownStrategyRaises ==
    kwargs.path \notin {"opportunistic", "optimal"} =>
        \/ pc = "start"
        \/ pc = "raised" /\ error = "KeyError"
        \/ pc = "done" /\ path = <<>> /\ step = 1

\* C7: the term every step appends has the label set _find_contraction
\* computed for the step, so input_list and input_set agree position by
\* position throughout the loop.
C7_TermsMatchSets ==
    /\ step_log.branch # "none" => StrSet(step_log.index_result) = step_log.out_inds
    /\ pc = "planned" =>
          /\ Len(input_list) = Len(input_set)
          /\ \A n \in DOMAIN input_list : StrSet(input_list[n]) = input_set[n]

\* C10: in the tensordot branch the eliminated labels are the labels the two
\* normalised terms share; in the four aligned patterns the matched run is made
\* of the eliminated labels, each once; and every reshape of the branch keeps
\* the number of entries.
C10_MatMulBookkeeping ==
    step_log.branch \in TensordotVariants =>
        /\ step_log.index_removed
              = StrSet(step_log.input_left) \cap StrSet(step_log.input_right)
        /\ step_log.branch \in Aligned4 =>
              /\ Len(step_log.run) = Cardinality(step_log.index_removed)
              /\ StrSet(step_log.run) = step_log.index_removed
        /\ \A k \in DOMAIN step_log.reshapes :
              step_log.reshapes[k].count = ProdSeq(step_log.reshapes[k].shape)

\* A step through a transposed pattern that reshaped both operands and the
\* product.
C10_Witness ==
    /\ step_log.branch \in {"matmul_tt", "matmul_nt", "matmul_tn"}
    /\ Len(step_log.reshapes) = 3
    /\ Cardinality(step_log.index_removed) = 1

\* ---------------------------------------------------- claims on plans
\* The term sets a planner starts from.
StartSets == [n \in DOMAIN string.input |-> StrSet(string.input[n])]

\* The pairs a < b of the positions 0..n-1.
PairsOf(n) == {q \in (0..(n - 1)) \X (0..(n - 1)) : q[1] < q[2]}

\* The sequences of n-1 pairs, the k-th among the positions live at step k.
PairSequences(n) ==
    {p \in [1..(n - 1) -> PairsOf(n)] : \A k \in 1..(n - 1) : p[k] \in PairsOf(n - k + 1)}

RECURSIVE Replay(_, _, _)
\* What _find_contraction yields at each step of the plan p run from `live`.
Replay(p, live, out_set) ==
    IF Len(p) = 0 THEN <<>>
    ELSE <<FindContraction(StrSet(p[1]), live, out_set)>>
         \o Replay(SubSeq(p, 2, Len(p)),
                   FindContraction(StrSet(p[1]), live, out_set).remaining, out_set)

\* The cost of a plan: per step the size of the touched labels, doubled when
\* the step eliminates a label.
CostOfSteps(steps, ind_dict) ==
    LET F[k \in 0..Len(steps)] ==
            IF k = 0 THEN 0
            ELSE F[k - 1] + ComputeSizeSet(steps[k].index_contract, ind_dict)
                            * (IF steps[k].index_removed = {} THEN 1 ELSE 2)
    IN  F[Len(steps)]
PlanCost(p) == CostOfSteps(Replay(p, StartSets, output_set), dimension_dict)

\* Every step of the plan p leaves a result within the ceiling m.
WithinCeiling(p, m) ==
    \A steps \in {Replay(p, StartSets, output_set)} :
        \A k \in DOMAIN steps : ComputeSizeSet(steps[k].new_result, dimension_dict) <= m

\* The full pairwise sequences within the ceiling m.
AdmissibleSequences(m) ==
    {p \in PairSequences(Len(string.input)) : WithinCeiling(p, m)}

\* _path_optimal has returned and its path is the result of the call.
PlannedOptimal ==
    /\ pc = "done" /\ result = [kind |-> "path", value |-> path]
    /\ kwargs.path = "optimal" /\ Len(string.input) > 2

\* C3: when some full pairwise sequence stays within the ceiling, _path_optimal
\* returns one of least cost among them, and of those of least cost the first
\* in the order of enumeration (the lexicographic order of their positions).
C3_OptimalPicksFirstCheapest ==
    PlannedOptimal =>
        \A admissible \in {AdmissibleSequences(memory)} :
            admissible # {} =>
                /\ path \in admissible
                /\ \A cost \in {PlanCost(path)} :
                   \A q \in admissible :
                      \/ cost < PlanCost(q)
                      \/ cost = PlanCost(q) /\ (q = path \/ ListLess(path, q))

\* Four operands, a ceiling that prunes some sequence, a costlier admissible
\* sequence and an equally cheap one that comes later.
C3_Witness ==
    /\ PlannedOptimal /\ Len(string.input) = 4
    /\ \E admissible \in {AdmissibleSequences(memory)} :
          /\ admissible # PairSequences(4)
          /\ \E q \in admissible : PlanCost(path) < PlanCost(q)
          /\ \E q \in admissible : q # path /\ PlanCost(path) = PlanCost(q)

\* C4: no planner raises, whatever the number of operands it is handed; when
\* the ceiling prunes every candidate _path_optimal returns the single step of
\* all positions and _path_opportunistic ends with the single step of the
\* positions live in that round.
C4_PlanningNeverFails ==
    /\ ~(pc = "raised" /\ kwargs.path \in {"opportunistic", "optimal"})
    /\ (PlannedOptimal /\ AdmissibleSequences(memory) = {}) =>
          path = <<Range(Len(string.input))>>
    /\ (round_log.live # <<>> /\ round_log.candidates = <<>>) =>
          path[Len(path)] = Range(Len(round_log.live))

\* C5: for ceilings m1 <= m2 the plan _path_optimal selects with m1 costs at
\* least what the plan it selects with m2 costs.
C5_TighterNeverCheaper ==
    PlannedOptimal =>
        \A cost \in {PlanCost(path)} :
        \A m1 \in Ceilings :
            m1 <= memory =>
                PlanCost(PathOptimal(string.input, string.output, dimension_dict, m1))
                    >= cost

\* C5 as corrected: the same, for the ceilings m1 that leave a full pairwise
\* sequence admissible.
C5_TighterNeverCheaperPairwise ==
    PlannedOptimal =>
        \A cost \in {PlanCost(path)} :
        \A m1 \in Ceilings :
            (m1 <= memory /\ AdmissibleSequences(m1) # {}) =>
                PlanCost(PathOptimal(string.input, string.output, dimension_dict, m1))
                    >= cost

\* A tighter ceiling that still admits a pairwise sequence and forces a
\* strictly costlier plan.
C5_Witness ==
    /\ PlannedOptimal
    /\ \E m1 \in Ceilings :
          /\ m1 < memory /\ AdmissibleSequences(m1) # {}
          /\ PlanCost(PathOptimal(string.input, string.output, dimension_dict, m1))
                > PlanCost(path)

\* The admissible pairs of the last round of _path_opportunistic.
RoundPairs ==
    {q \in PairsOf(Len(round_log.live)) :
        ComputeSizeSet(FindContraction({q[1], q[2]}, round_log.live, output_set).new_result,
                       dimension_dict) <= memory}
Eliminated(q) ==
    ComputeSizeSet(FindContraction({q[1], q[2]}, round_log.live, output_set).index_removed,
                   dimension_dict)
Touched(q) ==
    ComputeSizeSet(FindContraction({q[1], q[2]}, round_log.live, output_set).index_contract,
                   dimension_dict)

\* C8: in a round with an admissible pair, the pair committed is admissible, no
\* admissible pair eliminates more, none eliminates as much and touches less,
\* and the next round starts from the contraction of the committed pair.
C8_GreedyCommitsBest ==
    (round_log.live # <<>> /\ RoundPairs # {}) =>
        /\ round_log.committed \in RoundPairs
        /\ \A q \in RoundPairs :
              /\ Eliminated(q) <= Eliminated(round_log.committed)
              /\ Eliminated(q) = Eliminated(round_log.committed) =>
                    Touched(q) >= Touched(round_log.committed)
        /\ inp_set = FindContraction(StrSet(round_log.committed), round_log.live,
                                     output_set).remaining

\* A round in which the first pair found is admissible and is not the one
\* committed.
C8_Witness ==
    /\ round_log.live # <<>>
    /\ <<0, 1>> \in RoundPairs
    /\ round_log.committed \in RoundPairs
    /\ round_log.committed # <<0, 1>>

\* A planner has been entered.
PlannerEntered ==
    /\ pc # "start" /\ Len(string.input) # 2
    /\ kwargs.path \in {"opportunistic", "optimal"}

\* C9: the ceiling a planner prunes with is the largest of the operands' and
\* the output's sizes when the caller gives none, and the caller's value when
\* the caller gives one, for both strategies.
C9_CeilingIsCallers ==
    PlannerEntered =>
        memory = IF kwargs.memory = <<>>
                 THEN OutSize(string.input, string.output, dimension_dict)
                 ELSE kwargs.memory[1]

\* C9 as corrected: _path_optimal prunes with the caller's value, and
\* _path_opportunistic with the smaller of the caller's value and the default.
C9_CeilingClamped ==
    PlannerEntered =>
        LET default == OutSize(string.input, string.output, dimension_dict)
            given   == IF kwargs.memory = <<>> THEN default ELSE kwargs.memory[1]
        IN  /\ kwargs.path = "optimal" => memory = given
            /\ kwargs.path = "opportunistic" =>
                  memory = (CHOOSE m \in {given, default} : m <= given /\ m <= default)

\* _path_opportunistic entered with a caller's value above the default.
C9_Witness ==
    /\ PlannerEntered /\ kwargs.path = "opportunistic"
    /\ kwargs.memory # <<>>
    /\ kwargs.memory[1] > OutSize(string.input, string.output, dimension_dict)

=============================================================================
